---- MODULE Spec2Model ----
(***************************************************************************)
(* Model of the quiz pipeline: the markdown question parser                *)
(* (scripts/generate-quiz-json.js), the document consolidator              *)
(* (scripts/build-quizz-sets.js) and the seeder's attachment normalizer    *)
(* (seeder.ts and its earlier variant).                                    *)
(*                                                                         *)
(* A JavaScript string is modelled as a sequence of tokens.  The tokens    *)
(* the code inspects ("/", ".", " ", "-", "|", "#", ...) are single        *)
(* characters; a longer token such as "Users" stands for a run of          *)
(* characters none of which the code inspects.                             *)
(***************************************************************************)
EXTENDS Integers, Sequences, FiniteSets, TLC

(***************************************************************************)
(* Bounds of the model.                                                    *)
(***************************************************************************)
\* The number of lines of a document the parser reads.
MaxLines == 4

\* The number of lines of the document parsed under two declared roots.
MaxDocLines == 3

\* The length of the attachment references drawn over RefAlphabet.
MaxRefLen == 4

\* The number of parts handed to stableId, and the length of a string part.
MaxParts == 2

MaxPartLen == 2

\* The number of files in a directory, and of questions in a file that has any.
MaxDocs == 2

MaxQuestions == 1

\* The number of directory groups of a batch.
MaxGroups == 3

\* The number of files the seeder finds.
MaxFiles == 3

\* The number of attachments of a question handed to normalizeAttachmentUrls.
MaxAttachments == 2

(***************************************************************************)
(* The state of parseQuizMarkdown's line loop over one document.           *)
(***************************************************************************)
VARIABLES
  sourcePath,       \* the document's path relative to the declared root
  title,            \* let title
  introLines,       \* const introLines
  questionBlocks,   \* const questionBlocks
  currentQuestion,  \* let currentQuestion
  inQuestions,      \* let inQuestions
  line,             \* the line the loop read last, <<>> before the first
  taken,            \* the branch the loop took for it
  nread,            \* how many lines the loop has read
  pc,               \* "lines" in the loop, "done" once the record is returned
  parsed            \* <<>> in the loop, then <<the record returned>>

parserVars ==
  <<sourcePath, title, introLines, questionBlocks, currentQuestion, inQuestions,
    line, taken, nread, pc, parsed>>

(***************************************************************************)
(* deriveLanguageFromFilename applied to one source path.                  *)
(***************************************************************************)
VARIABLES
  langPath,         \* the source path
  langOut           \* <<>>, then <<the language derived>>

langVars == <<langPath, langOut>>

(***************************************************************************)
(* main() of generate-quiz-json.js on one file, run under two declared     *)
(* roots.                                                                  *)
(***************************************************************************)
VARIABLES
  filePath,         \* the file's absolute path
  content,          \* the file's lines
  rootA,            \* the declared root of the first run
  rootB,            \* the declared root of the second run
  outA,             \* <<>>, then <<the record the first run parsed>>
  outB              \* <<>>, then <<the record the second run parsed>>

rootVars == <<filePath, content, rootA, rootB, outA, outB>>

(***************************************************************************)
(* One attachment url handed to a normalizer, and handed to it again.      *)
(***************************************************************************)
VARIABLES
  normalizer,       \* "consolidator", "seeder" or "oldSeeder"
  url,              \* attachment.url before the first pass
  docFile,          \* the absolute path of the document that holds it
  root,             \* the declared root
  urlOnce,          \* attachment.url after one pass
  urlTwice,         \* attachment.url after two passes
  passes            \* how many passes have run

normVars == <<normalizer, url, docFile, root, urlOnce, urlTwice, passes>>

(***************************************************************************)
(* Two calls of stableId.                                                  *)
(***************************************************************************)
VARIABLES
  partsA,           \* the parts of the first call
  partsB,           \* the parts of the second call
  idA,              \* <<>>, then the identifier the first call returned
  idB               \* <<>>, then the identifier the second call returned

idVars == <<partsA, partsB, idA, idB>>

(***************************************************************************)
(* One call of inferLanguage.                                              *)
(***************************************************************************)
VARIABLES
  inferMeta,        \* json.meta.language: a string (Str) or another value (Num)
  inferFile,        \* the path of the file
  inferOut          \* <<>>, then <<the language returned>>

inferVars == <<inferMeta, inferFile, inferOut>>

(***************************************************************************)
(* buildCombinedPayload on the files of one directory.                     *)
(***************************************************************************)
VARIABLES
  groupDir,         \* the directory
  groupFiles,       \* its files in the order of the walk, each with its JSON
  parsedFiles,      \* the entries of Promise.all, sorted once the payload is built
  payload,          \* <<>>, then <<the payload returned>>
  cpc               \* "read", "build" or "done"

combineVars == <<groupDir, groupFiles, parsedFiles, payload, cpc>>

coreVars == <<parserVars, langVars, rootVars, normVars, idVars, inferVars, combineVars>>

(***************************************************************************)
(* main() of build-quizz-sets.js: the loop over the directory groups.      *)
(***************************************************************************)
VARIABLES
  batchGroups,      \* the groups in the order of the map; a group is its files, each
                    \* TRUE when it can be read and parsed as JSON
  batchIndex,       \* the number of groups the loop has been through
  written,          \* the counter of the loop
  outWrites,        \* for each group, how many times its quizz.json was written
  batchLog,         \* the line logged for each group: "ok" or "fail"
  bpc               \* "loop", then "done" once the summary is logged

batchVars == <<batchGroups, batchIndex, written, outWrites, batchLog, bpc>>

(***************************************************************************)
(* main() of seeder.ts: the loop over the files found.                     *)
(***************************************************************************)
VARIABLES
  seedFiles,        \* what happens to each file found: "ok", "http" (the response is
                    \* not ok), "throw" (fetch throws) or "parse" (read or parse fails)
  dryRun,           \* config.dryRun
  listed,           \* TRUE once findQuizJsonFiles has returned the files
  results,          \* the results pushed so far
  exitCode,         \* process.exitCode, 0 while it is not set
  spc               \* "start", "loop" or "done"

seedVars == <<seedFiles, dryRun, listed, results, exitCode, spc>>

(***************************************************************************)
(* One call of the seeder's normalizeAttachmentUrls on a payload.          *)
(***************************************************************************)
VARIABLES
  countVariant,     \* "seeder" (seeder.ts) or "oldSeeder" (the earlier variant)
  countPayload,     \* the payload before the call
  countOut,         \* the payload as the call left it
  changes,          \* -1, then the number the call returned
  npc               \* "call" or "returned"

countVars == <<countVariant, countPayload, countOut, changes, npc>>

extraVars == <<batchVars, seedVars, countVars>>

vars == <<coreVars, extraVars>>

(***************************************************************************)
(* String primitives: the methods of String.prototype the code uses.       *)
(***************************************************************************)
Min(S) == CHOOSE x \in S : \A y \in S : x <= y

Max(S) == CHOOSE x \in S : \A y \in S : x >= y

IsSpace(c) == c \in {" ", "\t"}

IsDigit(c) == c \in {"0", "1", "2", "3", "4", "5", "6", "7", "8", "9"}

UpperCase ==
  <<"A", "B", "C", "D", "E", "F", "G", "H", "I", "J", "K", "L", "M", "N", "O", "P",
    "Q", "R", "S", "T", "U", "V", "W", "X", "Y", "Z">>

LowerCase ==
  <<"a", "b", "c", "d", "e", "f", "g", "h", "i", "j", "k", "l", "m", "n", "o", "p",
    "q", "r", "s", "t", "u", "v", "w", "x", "y", "z">>

IsUpper(c) == \E i \in 1..Len(UpperCase) : UpperCase[i] = c

IsLower(c) == \E i \in 1..Len(LowerCase) : LowerCase[i] = c

IsLetter(c) == IsUpper(c) \/ IsLower(c)

ToLowerChar(c) ==
  IF IsUpper(c) THEN LowerCase[CHOOSE i \in 1..Len(UpperCase) : UpperCase[i] = c] ELSE c

ToUpperChar(c) ==
  IF IsLower(c) THEN UpperCase[CHOOSE i \in 1..Len(LowerCase) : LowerCase[i] = c] ELSE c

ToLowerCase(s) == [i \in 1..Len(s) |-> ToLowerChar(s[i])]

StartsWith(s, p) == Len(s) >= Len(p) /\ SubSeq(s, 1, Len(p)) = p

EndsWith(s, p) == Len(s) >= Len(p) /\ SubSeq(s, Len(s) - Len(p) + 1, Len(s)) = p

Drop(s, n) == SubSeq(s, n + 1, Len(s))

TrimStart(s) ==
  LET solid == {i \in 1..Len(s) : ~IsSpace(s[i])}
  IN IF solid = {} THEN <<>> ELSE SubSeq(s, Min(solid), Len(s))

Trim(s) ==
  LET solid == {i \in 1..Len(s) : ~IsSpace(s[i])}
  IN IF solid = {} THEN <<>> ELSE SubSeq(s, Min(solid), Max(solid))

\* The index of the first c in s at or after from, 0 when there is none.
IndexOf(s, c, from) ==
  LET hits == {i \in from..Len(s) : s[i] = c}
  IN IF hits = {} THEN 0 ELSE Min(hits)

RECURSIVE Join(_, _)
Join(strs, sep) ==
  IF strs = <<>> THEN <<>>
  ELSE IF Len(strs) = 1 THEN strs[1]
  ELSE strs[1] \o sep \o Join(Tail(strs), sep)

RECURSIVE Digits(_)
Digits(n) ==
  LET d == <<"0", "1", "2", "3", "4", "5", "6", "7", "8", "9">>[(n % 10) + 1]
  IN IF n < 10 THEN <<d>> ELSE Digits(n \div 10) \o <<d>>

(***************************************************************************)
(* Identifier generator: stableId (generate-quiz-json.js).                 *)
(* A part is a string or a number: Str(s) and Num(n).                      *)
(***************************************************************************)
Str(s) == [num |-> FALSE, n |-> 0, s |-> s]

Num(n) == [num |-> TRUE, n |-> n, s |-> <<>>]

\* String(part || ''): the number 0 and the empty string are both falsy.
PartString(part) ==
  IF part.num THEN (IF part.n = 0 THEN <<>> ELSE Digits(part.n)) ELSE part.s

\* The bytes fed to the hash: every part followed by "|".
RECURSIVE HashInput(_)
HashInput(parts) ==
  IF parts = <<>> THEN <<>>
  ELSE PartString(Head(parts)) \o <<"|">> \o HashInput(Tail(parts))

\* The truncated SHA-256 hex digest, taken as injective on the bytes fed: one
\* token that names the bytes.
Digest(bytes) == <<ToString(bytes)>>

stableId(parts) == Digest(HashInput(parts))

(***************************************************************************)
(* Markdown question parser: the regular expressions of                    *)
(* parseQuizMarkdown and parseQuestionBlock.  A value the code binds once  *)
(* and reads several times is passed on as a parameter.                    *)
(***************************************************************************)
TitleMark == <<"#", "#", " ">>

QuestionMark == <<"#", "#", "#", "#", " ">>

\* line.startsWith('## ')
IsTitleLine(ln) == StartsWith(ln, TitleMark)

\* line.startsWith('#### ')
IsQuestionLine(ln) == StartsWith(ln, QuestionMark)

\* line.replace(/^##\s*/, '').trim()
TitleText(ln) == Trim(Drop(ln, 2))

\* line.replace(/^####\s*/, '').trim()
HeadingText(ln) == Trim(Drop(ln, 4))

\* The backquote character, which a TLA+ string cannot hold.
BackQuote == "BACKQUOTE"

\* line.trim().startsWith of three backquotes
IsFenceLine(ln) == StartsWith(Trim(ln), <<BackQuote, BackQuote, BackQuote>>)

NoOption == [ok |-> FALSE, mark |-> " ", text |-> <<>>]

\* optionPattern past the list marker and its blanks: \[( |x|X)\]\s*(.+)$
OptionAfterMarker(b) ==
  IF Len(b) >= 4 /\ b[1] = "[" /\ b[2] \in {" ", "x", "X"} /\ b[3] = "]"
  THEN [ok |-> TRUE, mark |-> b[2], text |-> Trim(Drop(b, 3))]
  ELSE NoOption

\* optionPattern past the leading blanks: [-*+]\s*
OptionAfterBlanks(a) ==
  IF a # <<>> /\ a[1] \in {"-", "*", "+"} THEN OptionAfterMarker(TrimStart(Tail(a)))
  ELSE NoOption

\* line.match(optionPattern), /^\s*[-*+]\s*\[( |x|X)\]\s*(.+)$/ : the mark is
\* match[1], the text is match[2].trim().
OptionParts(ln) == OptionAfterBlanks(TrimStart(ln))

\* /!\[[^\]]*]\(([^)]+)\)/ at position i: the index of the "]" that ends the alt
\* text, 0 when i does not start "![" or no "]" follows.
AltEnd(s, i) ==
  IF i + 1 <= Len(s) /\ s[i] = "!" /\ s[i + 1] = "[" THEN IndexOf(s, "]", i + 2) ELSE 0

\* The index of the ")" that ends the reference opened after the "]" at j.
RefEnd(s, j) ==
  IF j > 0 /\ j + 1 <= Len(s) /\ s[j + 1] = "(" THEN IndexOf(s, ")", j + 2) ELSE 0

\* The match whose alt text ends at j and whose reference, not empty, ends at k.
ImageMatch(s, j, k) ==
  IF j > 0 /\ k > j + 2 THEN [ok |-> TRUE, ref |-> SubSeq(s, j + 2, k - 1), end |-> k]
  ELSE [ok |-> FALSE, ref |-> <<>>, end |-> 0]

ImageFrom(s, j) == ImageMatch(s, j, RefEnd(s, j))

ImageAt(s, i) == ImageFrom(s, AltEnd(s, i))

\* line.matchAll(...): the references of the matches, left to right, no overlap.
RECURSIVE ImageRefs(_, _)
RECURSIVE ImageRefsAfter(_, _, _)
ImageRefsAfter(s, i, m) ==
  IF m.ok THEN <<m.ref>> \o ImageRefs(s, m.end + 1) ELSE ImageRefs(s, i + 1)

ImageRefs(s, i) == IF i > Len(s) THEN <<>> ELSE ImageRefsAfter(s, i, ImageAt(s, i))

\* /^hint[:\-]?\s*/i.test(trimmed)
IsHint(trimmed) ==
  Len(trimmed) >= 4 /\ ToLowerCase(SubSeq(trimmed, 1, 4)) = <<"h", "i", "n", "t">>

\* What follows "hint": the optional ":" or "-" and the blanks are removed.
AfterHintLabel(rest) ==
  TrimStart(IF rest # <<>> /\ rest[1] \in {":", "-"} THEN Tail(rest) ELSE rest)

\* trimmed.replace(/^hint[:\-]?\s*/i, '') of a line that is a hint
HintText(trimmed) == AfterHintLabel(Drop(trimmed, 4))

RECURSIVE SkipWhile(_, _)
SkipWhile(s, kind) ==
  IF s # <<>> /\ (CASE kind = "letter" -> IsLetter(s[1]) \/ s[1] \in {"?", "'"}
                    [] kind = "space" -> IsSpace(s[1])
                    [] OTHER -> IsDigit(s[1]))
  THEN SkipWhile(Tail(s), kind) ELSE s

\* (.*) of the pattern below, not empty, else the whole text; trimmed.
RestOrText(rest, text) == IF rest # <<>> THEN Trim(rest) ELSE Trim(text)

\* \.?\s* past the digits
AfterDot(c) == SkipWhile(IF c # <<>> /\ c[1] = "." THEN Tail(c) ELSE c, "space")

\* a is the text past its label and blanks: the pattern matches when a digit is next.
StripNumber(a, text) ==
  IF a # <<>> /\ IsDigit(a[1]) THEN RestOrText(AfterDot(SkipWhile(a, "digit")), text)
  ELSE Trim(text)

\* text.match(/^(?:[A-Za-z...?']*\s*)?\d+\.?\s*(.*)$/): match[1].trim() when the
\* pattern matches and match[1] is not empty, text.trim() otherwise.
stripQuestionNumber(text) ==
  StripNumber(SkipWhile(SkipWhile(text, "letter"), "space"), text)

(***************************************************************************)
(* parseQuestionBlock (generate-quiz-json.js).                             *)
(***************************************************************************)
NatureMutant(correctAnswer) ==
  IF Len(correctAnswer) >= 1 THEN "ChooseMany" ELSE "ChooseOne"

\* nature: correctAnswer.length > 1 ? 'ChooseMany' : 'ChooseOne'
Nature(correctAnswer) ==
  IF Len(correctAnswer) > 1 THEN "ChooseMany" ELSE "ChooseOne"

\* attachments.push({ id, url, type }) for every reference matched in a line.
\* A variant that leaves the question index out of the key.
AttachmentsOfMutant(refs, quizId, questionIndex) ==
  [i \in 1..Len(refs) |->
     [id   |-> stableId(<<Str(<<"attachment">>), Str(quizId), Str(refs[i])>>),
      url  |-> refs[i],
      type |-> "question"]]

AttachmentsOf(refs, quizId, questionIndex) ==
  [i \in 1..Len(refs) |->
     [id   |-> stableId(<<Str(<<"attachment">>), Str(quizId), Num(questionIndex),
                          Str(refs[i])>>),
      url  |-> refs[i],
      type |-> "question"]]

EmptyScan ==
  [insideOptions |-> FALSE, insideCode |-> FALSE, options |-> <<>>,
   correctAnswer |-> <<>>, attachments |-> <<>>, questionLines |-> <<>>,
   trailingLines |-> <<>>]

\* A variant that captures options inside code too.
CapturedMutant(om, insideCode) == om.ok

\* optionMatch && !insideCode
Captured(om, insideCode) == om.ok /\ ~insideCode

\* The rest of a turn of the loop over block.body, once the fence is toggled and
\* the attachments are collected (seen) and the option pattern is tried (om).
BodyStepOn(seen, ln, om) ==
  IF Captured(om, seen.insideCode)
  THEN [seen EXCEPT !.insideOptions = TRUE,
                    !.options = Append(@, om.text),
                    !.correctAnswer =
                       IF ToLowerChar(om.mark) = "x" THEN Append(@, om.text) ELSE @]
  ELSE IF ~seen.insideOptions
       THEN [seen EXCEPT !.questionLines = Append(@, ln)]
       ELSE [seen EXCEPT !.trailingLines = Append(@, ln)]

\* One turn of the loop over block.body.
BodyStep(acc, ln, quizId, questionIndex) ==
  BodyStepOn([acc EXCEPT !.insideCode = IF IsFenceLine(ln) THEN ~@ ELSE @,
                         !.attachments =
                            @ \o AttachmentsOf(ImageRefs(ln, 1), quizId, questionIndex)],
             ln, OptionParts(ln))

RECURSIVE ScanBody(_, _, _, _)
ScanBody(body, acc, quizId, questionIndex) ==
  IF body = <<>> THEN acc
  ELSE ScanBody(Tail(body), BodyStep(acc, Head(body), quizId, questionIndex),
                quizId, questionIndex)

\* The trailing lines that are not blank, trimmed.
RECURSIVE TrimmedLines(_)
TrimmedLines(trailing) ==
  IF trailing = <<>> THEN <<>>
  ELSE (IF Trim(Head(trailing)) # <<>> THEN <<Trim(Head(trailing))>> ELSE <<>>)
       \o TrimmedLines(Tail(trailing))

IsExplanation(trimmed) == ~IsHint(trimmed)

StripHints(hints) == [i \in 1..Len(hints) |-> HintText(hints[i])]

\* hintLines: the hints among the trailing lines, label stripped.
HintLines(trailing) == StripHints(SelectSeq(TrimmedLines(trailing), IsHint))

\* explanationLines: the other trailing lines that are not blank.
ExplanationLines(trailing) == SelectSeq(TrimmedLines(trailing), IsExplanation)

NewLine == <<"\n">>

\* questionTextParts.join('\n').trim()
QuestionText(baseQuestion, extraQuestionText) ==
  Trim(Join(IF extraQuestionText # <<>> THEN <<baseQuestion, extraQuestionText>>
            ELSE <<baseQuestion>>, NewLine))

\* The record parseQuestionBlock returns once the body is scanned.  A null field
\* and an empty string are both written <<>>: null arises only from "|| null".
QuestionRecord(block, quizId, questionIndex, scan) ==
  [id            |-> stableId(<<Str(<<"question">>), Str(quizId), Num(questionIndex),
                                Str(block.heading)>>),
   question      |-> QuestionText(stripQuestionNumber(block.heading),
                                  Trim(Join(scan.questionLines, NewLine))),
   answer        |-> Join(scan.correctAnswer, <<";", " ">>),
   explanation   |-> Trim(Join(ExplanationLines(scan.trailingLines), NewLine)),
   hint          |-> Trim(Join(HintLines(scan.trailingLines), NewLine)),
   correctAnswer |-> scan.correctAnswer,
   options       |-> scan.options,
   nature        |-> Nature(scan.correctAnswer),
   attachments   |-> scan.attachments]

parseQuestionBlock(block, quizId, questionIndex) ==
  QuestionRecord(block, quizId, questionIndex,
                 ScanBody(block.body, EmptyScan, quizId, questionIndex))

(***************************************************************************)
(* Paths (node:path, POSIX).                                               *)
(***************************************************************************)
Sep == "/"

\* The pieces of s between the characters of seps.
RECURSIVE SplitAt(_, _, _)
SplitAt(s, seps, hits) ==
  IF hits = {} THEN <<s>>
  ELSE <<SubSeq(s, 1, Min(hits) - 1)>>
       \o SplitAt(Drop(s, Min(hits)), seps,
                  {i \in 1..(Len(s) - Min(hits)) : s[i + Min(hits)] \in seps})

\* str.split(sep), sep one character or a class of characters.
Split(s, seps) == SplitAt(s, seps, {i \in 1..Len(s) : s[i] \in seps})

LastOf(parts) == parts[Len(parts)]

\* path.basename(p)
Basename(p) == LastOf(Split(p, {Sep}))

DirnameAt(p, hits) ==
  IF hits = {} THEN <<".">>
  ELSE IF Max(hits) = 1 THEN <<Sep>> ELSE SubSeq(p, 1, Max(hits) - 1)

\* path.dirname(p) of a path with no trailing separator.
Dirname(p) == DirnameAt(p, {i \in 1..Len(p) : p[i] = Sep})

\* path.relative(from, to) for an absolute to at or below the absolute from, which
\* is where the directory walks find their files.
Relative(from, to) ==
  IF to = from THEN <<>>
  ELSE IF from = <<Sep>> THEN Tail(to) ELSE Drop(to, Len(from) + 1)

ParentSegment == <<".", ".">>

\* normalizeString of node:path: "." and empty segments go, ".." takes the segment
\* before it; above the start it is kept when allowAboveRoot, else dropped.
RECURSIVE NormalizeSegments(_, _, _)
NormalizeSegments(segs, res, allowAboveRoot) ==
  IF segs = <<>> THEN res
  ELSE IF Head(segs) \in {<<>>, <<".">>}
       THEN NormalizeSegments(Tail(segs), res, allowAboveRoot)
  ELSE IF Head(segs) = ParentSegment
       THEN IF res # <<>> /\ res[Len(res)] # ParentSegment
            THEN NormalizeSegments(Tail(segs), SubSeq(res, 1, Len(res) - 1), allowAboveRoot)
            ELSE IF allowAboveRoot
            THEN NormalizeSegments(Tail(segs), Append(res, ParentSegment), allowAboveRoot)
            ELSE NormalizeSegments(Tail(segs), res, allowAboveRoot)
  ELSE NormalizeSegments(Tail(segs), Append(res, Head(segs)), allowAboveRoot)

\* The end of path.posix.normalize: body is the normalized segments joined.
NormalizedPath(body, isAbsolute, trailingSeparator) ==
  IF body = <<>>
  THEN (IF isAbsolute THEN <<Sep>> ELSE IF trailingSeparator THEN <<".", Sep>> ELSE <<".">>)
  ELSE (IF isAbsolute THEN <<Sep>> ELSE <<>>)
       \o body \o (IF trailingSeparator THEN <<Sep>> ELSE <<>>)

\* path.posix.normalize(p)
PosixNormalize(p) ==
  IF p = <<>> THEN <<".">>
  ELSE NormalizedPath(Join(NormalizeSegments(Split(p, {Sep}), <<>>, p[1] # Sep), <<Sep>>),
                      p[1] = Sep, p[Len(p)] = Sep)

NotEmpty(s) == s # <<>>

\* path.posix.join(...parts)
PosixJoin(parts) == PosixNormalize(Join(SelectSeq(parts, NotEmpty), <<Sep>>))

WithoutTrailingSep(p) ==
  IF Len(p) > 1 /\ p[Len(p)] = Sep THEN SubSeq(p, 1, Len(p) - 1) ELSE p

\* path.resolve(p) of an absolute p: normalized, no trailing separator.
Resolve(p) == WithoutTrailingSep(PosixNormalize(p))

(***************************************************************************)
(* Attachment URL normalizers: normalizeAttachments (build-quizz-sets.js)  *)
(* and the map callback of normalizeAttachmentUrls (seeder.ts, and its     *)
(* earlier variant with the root written into the code).                   *)
(***************************************************************************)
\* /^https?:\/\//i.test(trimmed)
IsHttpUrl(trimmed) ==
  \/ StartsWith(ToLowerCase(trimmed), <<"h", "t", "t", "p", ":", "/", "/">>)
  \/ StartsWith(ToLowerCase(trimmed), <<"h", "t", "t", "p", "s", ":", "/", "/">>)

\* relDir ? relDir.split(path.sep).filter(Boolean) : []
RelParts(relDir) == IF relDir = <<>> THEN <<>> ELSE SelectSeq(Split(relDir, {Sep}), NotEmpty)

\* s.replace(/^p/, '') for a literal p
StripLeading(s, p) == IF StartsWith(s, p) THEN Drop(s, Len(p)) ELSE s

\* trimmed.replace(/^\.\//, '').replace(/^\//, '')
ConsolidatorClean(trimmed) == StripLeading(StripLeading(trimmed, <<".", Sep>>), <<Sep>>)

\* trimmed.replace(/^\.?\//, '')
SeederClean(trimmed) ==
  IF StartsWith(trimmed, <<".", Sep>>) THEN Drop(trimmed, 2) ELSE StripLeading(trimmed, <<Sep>>)

\* isAbsolute of normalizeAttachments and of seeder.ts
IsRooted(trimmed, basePrefix) ==
  \/ IsHttpUrl(trimmed)
  \/ StartsWith(trimmed, <<"~">>)
  \/ StartsWith(trimmed, <<Sep>>)
  \/ StartsWith(trimmed, basePrefix)

\* The url normalizeAttachments leaves in one attachment whose url is a string.
ConsolidatorTrimmed(trimmed, relDir, basePrefix) ==
  IF IsRooted(trimmed, basePrefix) THEN trimmed
  ELSE PosixJoin(<<basePrefix>> \o RelParts(relDir) \o <<ConsolidatorClean(trimmed)>>)

ConsolidatorUrl(u, relDir, declaredRoot) ==
  ConsolidatorTrimmed(Trim(u), relDir, Resolve(declaredRoot))

\* normalizeAttachments(attachments, relDir, root)
normalizeAttachments(attachments, relDir, declaredRoot) ==
  [i \in 1..Len(attachments) |->
     [attachments[i] EXCEPT !.url = ConsolidatorUrl(@, relDir, declaredRoot)]]

\* The url the map callback of seeder.ts leaves in one attachment.
SeederTrimmed(u, trimmed, relDir, absRoot) ==
  IF trimmed = <<>> THEN u
  ELSE IF IsRooted(trimmed, absRoot) THEN trimmed
  ELSE PosixJoin(<<absRoot>> \o RelParts(relDir) \o <<SeederClean(trimmed)>>)

SeederUrl(u, file, declaredRoot) ==
  SeederTrimmed(u, Trim(u), Relative(declaredRoot, Dirname(file)), Resolve(declaredRoot))

\* The root the earlier variant of the seeder carries in its code.
HardRoot ==
  <<"/", "Users", "/", "arslankaleem", "/", "Workspace", "/", "Junk", "/",
    "linkedin-skill-assessments-quizzes">>

\* The url the map callback of the earlier variant leaves in one attachment.
OldSeederTrimmed(u, trimmed, relDir) ==
  IF trimmed = <<>> THEN u
  ELSE IF IsHttpUrl(trimmed) \/ StartsWith(trimmed, HardRoot) THEN trimmed
  ELSE PosixJoin(<<HardRoot>> \o RelParts(relDir) \o <<SeederClean(trimmed)>>)

OldSeederUrl(u, file, declaredRoot) ==
  OldSeederTrimmed(u, Trim(u), Relative(declaredRoot, Dirname(file)))

(***************************************************************************)
(* parseQuizMarkdown (generate-quiz-json.js).                              *)
(***************************************************************************)
\* /-quiz[-.]([a-z]{2}(?:-[A-Za-z]{2})?)/i at position i of the basename: the
\* captured code, <<>> when there is no match at i.
LanguageAt(base, i) ==
  LET at(k) == IF i + k <= Len(base) THEN base[i + k] ELSE ""
      two == /\ at(0) = "-"
             /\ ToLowerCase(<<at(1), at(2), at(3), at(4)>>) = <<"q", "u", "i", "z">>
             /\ at(5) \in {"-", "."}
             /\ IsLetter(at(6)) /\ IsLetter(at(7))
      region == at(8) = "-" /\ IsLetter(at(9)) /\ IsLetter(at(10))
  IN IF ~two THEN <<>>
     ELSE IF region THEN SubSeq(base, i + 6, i + 10) ELSE SubSeq(base, i + 6, i + 7)

English == <<"e", "n">>

\* The first match in the basename, 'en' when there is none.
FirstLanguage(base, hits) == IF hits # {} THEN LanguageAt(base, Min(hits)) ELSE English

LanguageOfBase(base) ==
  FirstLanguage(base, {i \in 1..Len(base) : LanguageAt(base, i) # <<>>})

deriveLanguageFromFilename(path) == LanguageOfBase(Basename(path))

\* part.charAt(0).toUpperCase() + part.slice(1)
Capitalize(part) == IF part = <<>> THEN <<>> ELSE <<ToUpperChar(part[1])>> \o Tail(part)

CapitalizeAll(parts) == [i \in 1..Len(parts) |-> Capitalize(parts[i])]

buildTitleFromPath(source) ==
  Join(CapitalizeAll(Split(Split(source, {Sep})[1], {"-", "_"})), <<" ">>)

\* str.replace(/\s+/g, ' ')
RECURSIVE CollapseSpaces(_)
CollapseSpaces(s) ==
  IF s = <<>> THEN <<>>
  ELSE IF IsSpace(s[1]) THEN <<" ">> \o CollapseSpaces(SkipWhile(s, "space"))
  ELSE <<s[1]>> \o CollapseSpaces(Tail(s))

NoQuestion == [open |-> FALSE, heading |-> <<>>, body |-> <<>>]

\* The state of the line loop before its first line.  A null title and an empty
\* one are both <<>>: the code reads title only through "!title" and "||".
StartState ==
  [title |-> <<>>, introLines |-> <<>>, questionBlocks |-> <<>>,
   currentQuestion |-> NoQuestion, inQuestions |-> FALSE]

\* The branch one turn of the line loop takes.
Branch(st, l) ==
  IF st.title = <<>> /\ IsTitleLine(l) THEN "title"
  ELSE IF IsQuestionLine(l) THEN "heading"
  ELSE IF ~st.inQuestions THEN "intro"
  ELSE IF st.currentQuestion.open THEN "body"
  ELSE "drop"

\* questionBlocks once currentQuestion, if any, is pushed.
Pushed(st) ==
  IF st.currentQuestion.open
  THEN Append(st.questionBlocks, [heading |-> st.currentQuestion.heading,
                                  body |-> st.currentQuestion.body])
  ELSE st.questionBlocks

LineStepOn(st, l, branch) ==
  CASE branch = "title" -> [st EXCEPT !.title = TitleText(l)]
    [] branch = "heading" ->
         [st EXCEPT !.inQuestions = TRUE,
                    !.questionBlocks = Pushed(st),
                    !.currentQuestion =
                       [open |-> TRUE, heading |-> HeadingText(l), body |-> <<>>]]
    [] branch = "intro" -> [st EXCEPT !.introLines = Append(@, l)]
    [] branch = "body" -> [st EXCEPT !.currentQuestion.body = Append(@, l)]
    [] OTHER -> st

\* One turn of the line loop.
LineStep(st, l) == LineStepOn(st, l, Branch(st, l))

NoAnswersWarning(n) ==
  <<"Question", " ">> \o Digits(n) \o <<" ", "has no marked correct answers">>

NoOptionsWarning(n) == <<"Question", " ">> \o Digits(n) \o <<" ", "has no options">>

QuestionWarningsMutant(q, index) ==
  IF q.correctAnswer = <<>> THEN <<NoAnswersWarning(index + 1)>>
  ELSE IF q.options = <<>> THEN <<NoOptionsWarning(index + 1)>> ELSE <<>>

\* The warnings the questions.map callback pushes for the question at index.
QuestionWarnings(q, index) ==
  (IF q.correctAnswer = <<>> THEN <<NoAnswersWarning(index + 1)>> ELSE <<>>)
  \o (IF q.options = <<>> THEN <<NoOptionsWarning(index + 1)>> ELSE <<>>)

RECURSIVE AllWarnings(_, _)
AllWarnings(questions, index) ==
  IF index >= Len(questions) THEN <<>>
  ELSE QuestionWarnings(questions[index + 1], index) \o AllWarnings(questions, index + 1)

\* introLines.join(' ').replace(/\s+/g, ' ').trim() || `Seeded from ${sourcePath}`
DescriptionOr(joined, source) ==
  IF joined # <<>> THEN joined ELSE <<"Seeded", " ", "from", " ">> \o source

QuizId(source) == stableId(<<Str(<<"quiz">>), Str(source)>>)

\* questionBlocks.map((block, index) => parseQuestionBlock(...))
ParseBlocks(blocks, quizId) ==
  [i \in 1..Len(blocks) |-> parseQuestionBlock(blocks[i], quizId, i - 1)]

\* The record parseQuizMarkdown returns.  generatedAt, the clock's reading, is
\* left out.
QuizOutput(st, source, createdById, questions) ==
  [quizz |-> [id          |-> QuizId(source),
              title       |-> IF st.title # <<>> THEN st.title
                              ELSE buildTitleFromPath(source),
              description |-> DescriptionOr(Trim(CollapseSpaces(Join(st.introLines,
                                                                    <<" ">>))), source),
              createdById |-> createdById,
              questions   |-> questions],
   meta  |-> [source   |-> source,
              language |-> deriveLanguageFromFilename(source),
              warnings |-> AllWarnings(questions, 0)]]

\* What parseQuizMarkdown does after the line loop.
FinishParse(st, source, createdById) ==
  QuizOutput(st, source, createdById, ParseBlocks(Pushed(st), QuizId(source)))

RECURSIVE RunLines(_, _)
RunLines(st, lines) ==
  IF lines = <<>> THEN st ELSE RunLines(LineStep(st, Head(lines)), Tail(lines))

parseQuizMarkdown(lines, source, createdById) ==
  FinishParse(RunLines(StartState, lines), source, createdById)

(***************************************************************************)
(* The parser reading one document line by line.                           *)
(***************************************************************************)
LineTitle == <<"#", "#", " ", "T">>

LineQuestion == <<"#", "#", "#", "#", " ", "1", ".", " ", "Q">>

LineOpen == <<"-", " ", "[", " ", "]", " ", "3">>

LineMarked == <<"-", " ", "[", "x", "]", " ", "4">>

LineMarkedUpper == <<"*", " ", "[", "X", "]", " ", "5">>

LineFence == <<BackQuote, BackQuote, BackQuote>>

LineImage == <<"!", "[", "a", "]", "(", ".", "/", "i", ")">>

\* Three images on one line: the image of LineImage twice, then another.
LineImages == LineImage \o LineImage \o <<"!", "[", "]", "(", "j", ")">>

LineText == <<"t">>

Lines ==
  {LineTitle, LineQuestion, LineOpen, LineMarked, LineMarkedUpper, LineFence,
   LineImage, LineImages, LineText}

PythonQuiz ==
  <<"p", "y", "/", "p", "y", "-", "q", "u", "i", "z", ".", "m", "d">>

SeedUser == <<"seed-user">>

LoopState ==
  [title |-> title, introLines |-> introLines, questionBlocks |-> questionBlocks,
   currentQuestion |-> currentQuestion, inQuestions |-> inQuestions]

ParserInit ==
  /\ sourcePath = PythonQuiz
  /\ title = StartState.title
  /\ introLines = StartState.introLines
  /\ questionBlocks = StartState.questionBlocks
  /\ currentQuestion = StartState.currentQuestion
  /\ inQuestions = StartState.inQuestions
  /\ line = <<>>
  /\ taken = "none"
  /\ nread = 0
  /\ pc = "lines"
  /\ parsed = <<>>

\* The loop's variables after a turn that leaves it in st.
Turn(st) ==
  /\ title' = st.title
  /\ introLines' = st.introLines
  /\ questionBlocks' = st.questionBlocks
  /\ currentQuestion' = st.currentQuestion
  /\ inQuestions' = st.inQuestions

\* One turn of the loop on line l, which takes branch b.
Read(l, b) ==
  /\ Turn(LineStep(LoopState, l))
  /\ line' = l
  /\ taken' = b
  /\ nread' = nread + 1
  /\ UNCHANGED <<sourcePath, pc, parsed, langVars, rootVars, normVars, idVars, inferVars, combineVars,
                 extraVars>>

ReadTitle ==
  /\ pc = "lines"
  /\ nread < MaxLines
  /\ \E l \in Lines : Branch(LoopState, l) = "title" /\ Read(l, "title")

ReadHeading ==
  /\ pc = "lines"
  /\ nread < MaxLines
  /\ \E l \in Lines : Branch(LoopState, l) = "heading" /\ Read(l, "heading")

ReadIntro ==
  /\ pc = "lines"
  /\ nread < MaxLines
  /\ \E l \in Lines : Branch(LoopState, l) = "intro" /\ Read(l, "intro")

ReadBody ==
  /\ pc = "lines"
  /\ nread < MaxLines
  /\ \E l \in Lines : Branch(LoopState, l) = "body" /\ Read(l, "body")

\* The end of the document: the last block is pushed, the questions are parsed.
Finish ==
  /\ pc = "lines"
  /\ pc' = "done"
  /\ parsed' = <<FinishParse(LoopState, sourcePath, SeedUser)>>
  /\ UNCHANGED <<sourcePath, title, introLines, questionBlocks, currentQuestion,
                 inQuestions, line, taken, nread, langVars, rootVars, normVars, idVars, inferVars, combineVars,
                 extraVars>>

(***************************************************************************)
(* The consolidator (build-quizz-sets.js).                                 *)
(***************************************************************************)
KNOWN_LANGS ==
  <<<<"e", "n">>, <<"f", "r">>, <<"e", "s">>, <<"i", "t">>, <<"c", "h">>, <<"d", "e">>,
    <<"u", "a">>, <<"h", "i">>, <<"p", "t", "b", "r">>, <<"t", "r">>, <<"p", "t">>,
    <<"j", "a">>, <<"v", "i">>>>

\* KNOWN_LANGS.includes(s)
IsKnownLang(s) == \E i \in 1..Len(KNOWN_LANGS) : KNOWN_LANGS[i] = s

\* LANG_SUFFIX: the alternatives that "-(...)$" matches in base, case ignored.
LANG_SUFFIX(base) ==
  {i \in 1..Len(KNOWN_LANGS) : EndsWith(ToLowerCase(base), <<"-">> \o KNOWN_LANGS[i])}

DotJson == <<".", "j", "s", "o", "n">>

StripExtension(base, ext) ==
  IF EndsWith(base, ext) /\ Len(base) > Len(ext)
  THEN SubSeq(base, 1, Len(base) - Len(ext)) ELSE base

\* path.basename(p, ext) of a file path
BasenameWithout(p, ext) == StripExtension(Basename(p), ext)

\* match ? match[1].toLowerCase() : 'en'
SuffixOrEnglish(hits) == IF hits # {} THEN KNOWN_LANGS[Min(hits)] ELSE English

\* metaLanguage && typeof metaLanguage === 'string' && KNOWN_LANGS.includes(normalized)
MetaIsKnown(metaLanguage, normalized) ==
  ~metaLanguage.num /\ metaLanguage.s # <<>> /\ IsKnownLang(normalized)

InferFrom(metaLanguage, normalized, path) ==
  IF MetaIsKnown(metaLanguage, normalized) THEN normalized
  ELSE SuffixOrEnglish(LANG_SUFFIX(BasenameWithout(path, DotJson)))

\* A variant that looks at the filename before the metadata.
InferLanguageMutant(metaLanguage, path) ==
  IF LANG_SUFFIX(BasenameWithout(path, DotJson)) # {}
  THEN SuffixOrEnglish(LANG_SUFFIX(BasenameWithout(path, DotJson)))
  ELSE InferFrom(metaLanguage, ToLowerCase(Trim(metaLanguage.s)), path)

inferLanguage(metaLanguage, path) ==
  InferFrom(metaLanguage, ToLowerCase(Trim(metaLanguage.s)), path)

\* The place of a lower-case letter in the alphabet.
Rank(c) == CHOOSE i \in 1..Len(LowerCase) : LowerCase[i] = c

\* a.localeCompare(b) < 0 for strings of lower-case letters
RECURSIVE Precedes(_, _)
Precedes(a, b) ==
  IF b = <<>> THEN FALSE
  ELSE IF a = <<>> THEN TRUE
  ELSE IF Head(a) = Head(b) THEN Precedes(Tail(a), Tail(b))
  ELSE Rank(Head(a)) < Rank(Head(b))

\* e put into the sorted entries after every entry that does not come after it.
RECURSIVE Insert(_, _)
Insert(sorted, e) ==
  IF sorted = <<>> THEN <<e>>
  ELSE IF Precedes(e.language, Head(sorted).language) THEN <<e>> \o sorted
  ELSE <<Head(sorted)>> \o Insert(Tail(sorted), e)

\* A variant that leaves the entries in the order of the walk.
SortMutant(entries) == entries

\* parsedFiles.sort((a, b) => a.language.localeCompare(b.language)): a stable sort
RECURSIVE SortByLanguage(_)
SortByLanguage(entries) ==
  IF entries = <<>> THEN <<>>
  ELSE Insert(SortByLanguage(SubSeq(entries, 1, Len(entries) - 1)), entries[Len(entries)])

EnglishEntries(entries) == {i \in 1..Len(entries) : entries[i].language = English}

\* pickBase(parsedFiles) of a group, which holds at least one file
pickBase(entries) ==
  IF EnglishEntries(entries) # {} THEN entries[Min(EnglishEntries(entries))] ELSE entries[1]

\* What slugify puts for one character of the lower-cased input.
SlugWord(c) ==
  CASE c = "+" -> <<" ", "p", "l", "u", "s", " ">>
    [] c = "#" -> <<" ", "s", "h", "a", "r", "p", " ">>
    [] c = "&" -> <<" ", "a", "n", "d", " ">>
    [] OTHER -> <<c>>

RECURSIVE SlugWords(_)
SlugWords(s) == IF s = <<>> THEN <<>> ELSE SlugWord(Head(s)) \o SlugWords(Tail(s))

\* .replace(/[^a-z0-9]+/g, '-'), and .replace(/--+/g, '-') on its result
RECURSIVE Dashes(_, _)
Dashes(s, inRun) ==
  IF s = <<>> THEN <<>>
  ELSE IF IsLower(Head(s)) \/ IsDigit(Head(s)) THEN <<Head(s)>> \o Dashes(Tail(s), FALSE)
  ELSE (IF inRun THEN <<>> ELSE <<"-">>) \o Dashes(Tail(s), TRUE)

\* .replace(/^-+|-+$/g, '')
StripDashes(s, kept) == IF kept = {} THEN <<>> ELSE SubSeq(s, Min(kept), Max(kept))

TrimDashes(s) == StripDashes(s, {i \in 1..Len(s) : s[i] # "-"})

\* slugify(input) of a string; '' for an empty one
slugify(input) == Dashes(TrimDashes(Dashes(SlugWords(ToLowerCase(input)), FALSE)), FALSE)

Or(a, b) == IF a # <<>> THEN a ELSE b

DefaultAuthor == <<"cmiz68drf00004eqsc3izonqy">>

\* The map callback of lines 114-121 on one question.
StampQuestion(q, setId, quizzId, relDir, declaredRoot) ==
  [id |-> q.id, question |-> q.question, explanation |-> q.explanation, hint |-> q.hint,
   setId |-> setId, quizzId |-> quizzId,
   attachments |-> normalizeAttachments(q.attachments, relDir, declaredRoot)]

\* The map callback of lines 112-130 on one entry.
SetOf(entry, setId, quizzId, relDir, declaredRoot) ==
  [id |-> setId,
   language |-> entry.language,
   title |-> entry.data.quizz.title,
   description |-> entry.data.quizz.description,
   questions |-> [j \in 1..Len(entry.data.quizz.questions) |->
                    StampQuestion(entry.data.quizz.questions[j], setId, quizzId,
                                  relDir, declaredRoot)]]

RECURSIVE Flatten(_)
Flatten(lists) == IF lists = <<>> THEN <<>> ELSE Head(lists) \o Flatten(Tail(lists))

\* Lines 107-154, once the entries are sorted and the base picked.
Combined(dir, entries, base, quizzId, declaredRoot) ==
  [quizz |->
     [id |-> quizzId,
      slug |-> Or(slugify(base.data.quizz.title), Basename(dir)),
      createdById |-> Or(base.data.quizz.createdById, DefaultAuthor),
      sets |-> [i \in 1..Len(entries) |->
                  SetOf(entries[i], quizzId \o <<"-">> \o entries[i].language, quizzId,
                        Relative(declaredRoot, dir), declaredRoot)]],
   meta |->
     [languages |-> [i \in 1..Len(entries) |-> entries[i].language],
      sources |-> SelectSeq([i \in 1..Len(entries) |-> entries[i].data.meta.source], NotEmpty),
      warnings |-> Flatten([i \in 1..Len(entries) |-> entries[i].data.meta.warnings])]]

\* Lines 95-102: the entries Promise.all resolves to.
ParsedFiles(docs) ==
  [i \in 1..Len(docs) |->
     [file |-> docs[i].file,
      language |-> inferLanguage(docs[i].data.meta.language, docs[i].file),
      data |-> docs[i].data]]

(***************************************************************************)
(* deriveLanguageFromFilename on the source paths the walk can find: a     *)
(* directory, a stem, "quiz", a suffix and the extension ".md".            *)
(***************************************************************************)
DotMd == <<".", "m", "d">>

Stems == {<<"p", "y">>, <<"c", ".", "e", "s">>}

QuizWords == {<<"-", "q", "u", "i", "z">>, <<"-", "Q", "U", "I", "Z">>, <<"q", "u", "i", "z">>}

Suffixes ==
  {<<>>, <<"-", "f", "r">>, <<".", "f", "r">>, <<"-", "p", "t", "-", "B", "R">>,
   <<"-", "f">>, <<"_", "f", "r">>, <<"-", "F", "R">>}

Directories == {<<>>, <<"p", "y", "/">>, <<"x", "-", "q", "u", "i", "z", "-", "e", "s", "/">>}

SourcePaths ==
  {d \o s \o q \o x \o DotMd : d \in Directories, s \in Stems, q \in QuizWords, x \in Suffixes}

LangInit == langPath \in SourcePaths /\ langOut = <<>>

LangIdle == langPath = PythonQuiz /\ langOut = <<>>

\* meta.language of the record parseQuizMarkdown returns.
Derive ==
  /\ langOut = <<>>
  /\ langOut' = <<deriveLanguageFromFilename(langPath)>>
  /\ UNCHANGED <<langPath, parserVars, rootVars, normVars, idVars, inferVars, combineVars,
                 extraVars>>

(***************************************************************************)
(* main() of generate-quiz-json.js on one file under a declared root.      *)
(***************************************************************************)
\* The body of main()'s loop for one file: the path handed to the parser is the
\* file's path relative to the declared root.
MainFile(declaredRoot, file, lines, createdById) ==
  parseQuizMarkdown(lines, Relative(declaredRoot, file), createdById)

RepoRoot == <<"/", "r">>

RepoFiles == {RepoRoot \o <<"/">> \o PythonQuiz}

\* The directories above a file: the roots whose walk finds it.
RECURSIVE Ancestors(_)
Ancestors(p) ==
  IF Dirname(p) = <<Sep>> THEN {} ELSE {Dirname(p)} \cup Ancestors(Dirname(p))

DocLines == {LineQuestion, LineImage, LineMarked, LineText}

RECURSIVE SeqsUpTo(_, _)
SeqsUpTo(S, n) ==
  IF n = 0 THEN {<<>>}
  ELSE SeqsUpTo(S, n - 1) \cup {Append(s, x) : s \in {q \in SeqsUpTo(S, n - 1) : Len(q) = n - 1}, x \in S}

RootInit ==
  /\ filePath \in RepoFiles
  /\ content \in SeqsUpTo(DocLines, MaxDocLines)
  /\ rootA \in Ancestors(filePath)
  /\ rootB \in Ancestors(filePath) \ {rootA}
  /\ outA = <<>>
  /\ outB = <<>>

RootIdle ==
  /\ filePath = RepoRoot \o <<"/">> \o PythonQuiz
  /\ content = <<>>
  /\ rootA = RepoRoot
  /\ rootB = RepoRoot
  /\ outA = <<>>
  /\ outB = <<>>

RunA ==
  /\ outA = <<>>
  /\ outA' = <<MainFile(rootA, filePath, content, SeedUser)>>
  /\ UNCHANGED <<filePath, content, rootA, rootB, outB, parserVars, langVars, normVars, idVars, inferVars, combineVars,
                 extraVars>>

RunB ==
  /\ outB = <<>>
  /\ outB' = <<MainFile(rootB, filePath, content, SeedUser)>>
  /\ UNCHANGED <<filePath, content, rootA, rootB, outA, parserVars, langVars, normVars, idVars, inferVars, combineVars,
                 extraVars>>

(***************************************************************************)
(* A normalizer applied to one attachment url, then to its own output.     *)
(***************************************************************************)
RefAlphabet == {".", "/", " ", "a"}

Roots == {RepoRoot, <<"/", "w", "/", "r">>}

QuizJson == <<"q", "u", "i", "z", ".", "j", "s", "o", "n">>

DocFiles(r) == {r \o <<Sep>> \o QuizJson, r \o <<Sep, "p", "y", Sep>> \o QuizJson}

\* References the short strings over RefAlphabet do not reach: external URLs, the
\* "~" marker, paths under the declared root and under the root in the code.
RootedRefs(r) ==
  {<<"h", "t", "t", "p", ":", "/", "/", "a">>, <<"H", "T", "T", "P", "S", ":", "/", "/", "a">>,
   <<"h", "t", "t", "p", "/", "a">>, <<"~", "/", "a">>, r \o <<Sep, "a">>, HardRoot \o <<Sep, "a">>}

Refs(r) ==
  SeqsUpTo(RefAlphabet, MaxRefLen) \cup RootedRefs(r)
  \cup {<<" ">> \o u \o <<" ">> : u \in RootedRefs(r)}

NormInit ==
  /\ normalizer \in {"consolidator", "seeder", "oldSeeder"}
  /\ root \in Roots
  /\ docFile \in DocFiles(root)
  /\ url \in Refs(root)
  /\ urlOnce = url
  /\ urlTwice = url
  /\ passes = 0

NormIdle ==
  /\ normalizer = "consolidator"
  /\ root = RepoRoot
  /\ docFile = RepoRoot \o <<Sep>> \o QuizJson
  /\ url = <<>>
  /\ urlOnce = <<>>
  /\ urlTwice = <<>>
  /\ passes = 0

\* The variables after a pass that turns the current url into u.
Passed(u) ==
  /\ passes < 2
  /\ passes' = passes + 1
  /\ urlOnce' = IF passes = 0 THEN u ELSE urlOnce
  /\ urlTwice' = u
  /\ UNCHANGED <<normalizer, url, docFile, root, parserVars, langVars, rootVars, idVars, inferVars, combineVars,
                 extraVars>>

\* buildCombinedPayload's call: relDir is the group's directory under the root.
ConsolidatorPass ==
  /\ normalizer = "consolidator"
  /\ Passed(normalizeAttachments(<<[url |-> urlTwice]>>,
                                 Relative(root, Dirname(docFile)), root)[1].url)

\* seedFile's call in seeder.ts
SeederPass ==
  /\ normalizer = "seeder"
  /\ Passed(SeederUrl(urlTwice, docFile, root))

\* seedFile's call in the earlier variant
OldSeederPass ==
  /\ normalizer = "oldSeeder"
  /\ Passed(OldSeederUrl(urlTwice, docFile, root))

(***************************************************************************)
(* stableId called on two lists of parts.                                  *)
(***************************************************************************)
PartAlphabet == {"a", "|"}

Parts == {Str(s) : s \in SeqsUpTo(PartAlphabet, MaxPartLen)} \cup {Num(0), Num(1)}

IdInit ==
  /\ partsA \in SeqsUpTo(Parts, MaxParts)
  /\ partsB \in SeqsUpTo(Parts, MaxParts)
  /\ idA = <<>>
  /\ idB = <<>>

IdIdle == partsA = <<>> /\ partsB = <<>> /\ idA = <<>> /\ idB = <<>>

HashA ==
  /\ idA = <<>>
  /\ idA' = stableId(partsA)
  /\ UNCHANGED <<partsA, partsB, idB, parserVars, langVars, rootVars, normVars,
               inferVars, combineVars,
                 extraVars>>

HashB ==
  /\ idB = <<>>
  /\ idB' = stableId(partsB)
  /\ UNCHANGED <<partsA, partsB, idA, parserVars, langVars, rootVars, normVars,
               inferVars, combineVars,
                 extraVars>>

(***************************************************************************)
(* inferLanguage on a metadata value and a file path.                      *)
(***************************************************************************)
MetaLanguages ==
  {Str(<<>>), Str(<<"f", "r">>), Str(<<" ", "F", "R", " ">>), Str(<<"x", "x">>),
   Str(<<"e", "n">>), Str(<<"p", "t", "b", "r">>), Str(<<" ">>), Str(<<"f", "r", "a">>),
   Num(1)}

JsonSuffixes ==
  {<<>>, <<"-", "f", "r">>, <<"-", "D", "E">>, <<"-", "x", "x">>, <<"-", "p", "t">>,
   <<"-", "p", "t", "b", "r">>, <<"-", "e", "n">>, <<".", "f", "r">>, <<"-", "f", "r", "-">>}

JsonFiles ==
  {RepoRoot \o <<Sep, "p", "y", Sep, "p", "y", "-", "q", "u", "i", "z">> \o x \o DotJson :
     x \in JsonSuffixes}

InferInit == inferMeta \in MetaLanguages /\ inferFile \in JsonFiles /\ inferOut = <<>>

InferIdle ==
  inferMeta = Str(<<>>) /\ inferFile = RepoRoot \o <<Sep>> \o QuizJson /\ inferOut = <<>>

Infer ==
  /\ inferOut = <<>>
  /\ inferOut' = <<inferLanguage(inferMeta, inferFile)>>
  /\ UNCHANGED <<inferMeta, inferFile, parserVars, langVars, rootVars, normVars, idVars,
                 combineVars,
                 extraVars>>

(***************************************************************************)
(* buildCombinedPayload on the quiz files of one directory under RepoRoot. *)
(***************************************************************************)
GroupDirs == {RepoRoot \o <<Sep, "c">>}

GroupNames ==
  {<<"c", "-", "q", "u", "i", "z">> \o x \o DotJson :
     x \in {<<>>, <<"-", "f", "r">>, <<"-", "D", "E">>}}

GroupMetas == {Str(<<>>), Str(<<" ", "F", "R", " ">>), Str(<<"x", "x">>)}

Uuids == {<<"uuid-1">>, <<"uuid-2">>}

\* The title the generator read from the file, none in a file without a title line.
DocTitle(name) == IF EndsWith(name, <<"z">> \o DotJson) THEN <<"C", "+", "+">> ELSE <<>>

\* A question as the generator writes it, with one image next to the file.
DocQuestion(quizId, j) ==
  [id |-> stableId(<<Str(<<"question">>), Str(quizId), Num(j - 1), Str(<<"Q">>)>>),
   question |-> <<"Q">>, explanation |-> <<>>, hint |-> <<>>,
   attachments |->
     <<[id |-> stableId(<<Str(<<"attachment">>), Str(quizId), Num(j - 1),
                          Str(<<".", Sep, "a">>)>>),
        url |-> <<".", Sep, "a">>, type |-> "question"]>>]

\* The JSON of a file: with the id the generator gave it, or with none.
DocData(name, meta, hasId, count) ==
  [quizz |-> [id |-> IF hasId THEN QuizId(name) ELSE <<>>,
              title |-> DocTitle(name),
              description |-> <<"Seeded">>,
              createdById |-> IF hasId THEN SeedUser ELSE <<>>,
              questions |-> [j \in 1..count |-> DocQuestion(QuizId(name), j)]],
   meta |-> [source |-> name, language |-> meta, warnings |-> <<>>]]

Docs(dir) ==
  {[file |-> dir \o <<Sep>> \o name, data |-> DocData(name, meta, hasId, count)] :
     name \in GroupNames, meta \in GroupMetas, hasId \in BOOLEAN, count \in {0, MaxQuestions}}

DistinctFiles(docs) ==
  \A i, k \in 1..Len(docs) : docs[i].file = docs[k].file => i = k

Groups(dir) == {g \in SeqsUpTo(Docs(dir), MaxDocs) : g # <<>> /\ DistinctFiles(g)}

CombineInit ==
  /\ groupDir \in GroupDirs
  /\ groupFiles \in Groups(groupDir)
  /\ parsedFiles = <<>>
  /\ payload = <<>>
  /\ cpc = "read"

CombineIdle ==
  /\ groupDir = RepoRoot
  /\ groupFiles = <<>>
  /\ parsedFiles = <<>>
  /\ payload = <<>>
  /\ cpc = "read"

\* Lines 95-102: every file read and parsed, its language inferred.
ReadFiles ==
  /\ cpc = "read"
  /\ parsedFiles' = ParsedFiles(groupFiles)
  /\ cpc' = "build"
  /\ UNCHANGED <<groupDir, groupFiles, payload, parserVars, langVars, rootVars, normVars,
                 idVars, inferVars,
                 extraVars>>

Built(entries, base, uuid) ==
  /\ parsedFiles' = entries
  /\ payload' = <<Combined(groupDir, entries, base, Or(base.data.quizz.id, uuid), RepoRoot)>>

\* Lines 104-155: the entries sorted in place, the base picked, the payload returned.
BuildPayload ==
  /\ cpc = "build"
  /\ \E uuid \in Uuids :
       Built(SortByLanguage(parsedFiles), pickBase(SortByLanguage(parsedFiles)), uuid)
  /\ cpc' = "done"
  /\ UNCHANGED <<groupDir, groupFiles, parserVars, langVars, rootVars, normVars, idVars,
                 inferVars,
                 extraVars>>

(***************************************************************************)
(* main() of build-quizz-sets.js on groups whose files parse or do not.    *)
(* What a payload holds plays no part in the loop; a file is its outcome.  *)
(***************************************************************************)
FileOutcomes == {g \in SeqsUpTo(BOOLEAN, MaxDocs) : g # <<>>}

BatchInit ==
  /\ batchGroups \in SeqsUpTo(FileOutcomes, MaxGroups)
  /\ batchIndex = 0
  /\ written = 0
  /\ outWrites = [i \in 1..Len(batchGroups) |-> 0]
  /\ batchLog = <<>>
  /\ bpc = "loop"

BatchIdle ==
  /\ batchGroups = <<>>
  /\ batchIndex = 0
  /\ written = 0
  /\ outWrites = <<>>
  /\ batchLog = <<>>
  /\ bpc = "loop"

\* Promise.all of buildCombinedPayload resolves: every file was read and parsed.
AllParse(files) == \A i \in 1..Len(files) : files[i]

\* A variant in which a failed group ends the loop.
AfterFailureMutant(i, n) == n

\* The group the loop turns to after the catch block of a failed one.
AfterFailure(i, n) == i + 1

\* Lines 47-51: the payload is built, quizz.json written, the counter raised.
WriteGroup ==
  /\ bpc = "loop"
  /\ batchIndex < Len(batchGroups)
  /\ AllParse(batchGroups[batchIndex + 1])
  /\ outWrites' = [outWrites EXCEPT ![batchIndex + 1] = @ + 1]
  /\ written' = written + 1
  /\ batchLog' = Append(batchLog, "ok")
  /\ batchIndex' = batchIndex + 1
  /\ UNCHANGED <<batchGroups, bpc, coreVars, seedVars, countVars>>

\* Lines 47, 52-54: buildCombinedPayload rejects, the catch block logs the failure.
FailGroup ==
  /\ bpc = "loop"
  /\ batchIndex < Len(batchGroups)
  /\ ~AllParse(batchGroups[batchIndex + 1])
  /\ batchLog' = Append(batchLog, "fail")
  /\ batchIndex' = AfterFailure(batchIndex, Len(batchGroups))
  /\ UNCHANGED <<batchGroups, written, outWrites, bpc, coreVars, seedVars, countVars>>

\* Line 57: the loop is over, the summary logged.
Summary ==
  /\ bpc = "loop"
  /\ batchIndex = Len(batchGroups)
  /\ bpc' = "done"
  /\ UNCHANGED <<batchGroups, batchIndex, written, outWrites, batchLog, coreVars,
                 seedVars, countVars>>

(***************************************************************************)
(* main() of seeder.ts on files whose upload goes one way or another.      *)
(***************************************************************************)
Outcomes == {"ok", "http", "throw", "parse"}

SeedInit ==
  /\ seedFiles \in SeqsUpTo(Outcomes, MaxFiles)
  /\ dryRun \in BOOLEAN
  /\ listed = FALSE
  /\ results = <<>>
  /\ exitCode = 0
  /\ spc = "start"

SeedIdle ==
  /\ seedFiles = <<>>
  /\ dryRun = FALSE
  /\ listed = FALSE
  /\ results = <<>>
  /\ exitCode = 0
  /\ spc = "start"

\* result.status of seedFile: the read and the parse come before the dry-run
\* return, the upload after it; every error is caught.
seedFile(outcome, dry) ==
  IF outcome = "parse" THEN "failed"
  ELSE IF dry THEN "dry-run"
  ELSE IF outcome = "ok" THEN "ok" ELSE "failed"

Failed(rs) == {i \in 1..Len(rs) : rs[i].status = "failed"}

\* A variant that forgets the dry-run flag.
ExitCodeMutant(failed, dry) == IF failed > 0 THEN 1 ELSE 0

\* Lines 57-59
ExitCode(failed, dry) == IF failed > 0 /\ ~dry THEN 1 ELSE 0

\* Lines 29-38: the runtime is supported and the walk returns the files; with no
\* file main returns at once.
ListFiles ==
  /\ spc = "start"
  /\ listed' = TRUE
  /\ spc' = IF seedFiles = <<>> THEN "done" ELSE "loop"
  /\ UNCHANGED <<seedFiles, dryRun, results, exitCode, coreVars, batchVars, countVars>>

\* Lines 29-32, 248-251: ensureRuntimeSupport or the walk throws, main rejects.
Reject ==
  /\ spc = "start"
  /\ exitCode' = 1
  /\ spc' = "done"
  /\ UNCHANGED <<seedFiles, dryRun, listed, results, coreVars, batchVars, countVars>>

\* Lines 41-49: one file seeded, its result pushed and logged.
SeedNext ==
  /\ spc = "loop"
  /\ Len(results) < Len(seedFiles)
  /\ results' = Append(results, [file |-> Len(results) + 1,
                                 status |-> seedFile(seedFiles[Len(results) + 1], dryRun)])
  /\ UNCHANGED <<seedFiles, dryRun, listed, exitCode, spc, coreVars, batchVars, countVars>>

\* Lines 51-59: the totals logged, the exit code set.
SeedDone ==
  /\ spc = "loop"
  /\ Len(results) = Len(seedFiles)
  /\ exitCode' = ExitCode(Cardinality(Failed(results)), dryRun)
  /\ spc' = "done"
  /\ UNCHANGED <<seedFiles, dryRun, listed, results, coreVars, batchVars, countVars>>

(***************************************************************************)
(* normalizeAttachmentUrls of the seeder on a single-quiz payload          *)
(* (quizz.questions) or a multi-set payload (quizz.sets[].questions), of   *)
(* the file quizz.json in a directory under RepoRoot.                      *)
(***************************************************************************)
CountFile == RepoRoot \o <<Sep, "c", Sep>> \o QuizJson

CountUrls ==
  {<<"a">>, <<" ">>, <<" ", "h", "t", "t", "p", ":", "/", "/", "a", " ">>,
   <<"h", "t", "t", "p", ":", "/", "/", "a">>, RepoRoot \o <<Sep, "a">>}

\* A question with the attachments of the urls us.
QuestionOf(us) == [attachments |-> [i \in 1..Len(us) |-> [url |-> us[i]]]]

UrlLists == SeqsUpTo(CountUrls, MaxAttachments)

Payloads ==
  {[multi |-> FALSE, questions |-> <<QuestionOf(a), QuestionOf(b)>>] :
     a \in UrlLists, b \in UrlLists}
  \cup {[multi |-> TRUE, sets |-> <<[questions |-> <<QuestionOf(a)>>],
                                   [questions |-> <<QuestionOf(b)>>]>>] :
          a \in UrlLists, b \in UrlLists}

CountInit ==
  /\ countVariant \in {"seeder", "oldSeeder"}
  /\ countPayload \in Payloads
  /\ countOut = countPayload
  /\ changes = -1
  /\ npc = "call"

CountIdle ==
  /\ countVariant = "seeder"
  /\ countPayload = [multi |-> FALSE, questions |-> <<>>]
  /\ countOut = countPayload
  /\ changes = -1
  /\ npc = "call"

\* The map callback raises the counter: the url went through the join and the
\* joined path is not the url it had.
SeederCounts(u, trimmed, absRoot, out) ==
  trimmed # <<>> /\ ~IsRooted(trimmed, absRoot) /\ out # u

OldSeederCounts(u, trimmed, out) ==
  trimmed # <<>> /\ ~(IsHttpUrl(trimmed) \/ StartsWith(trimmed, HardRoot)) /\ out # u

UrlAfter(variant, u) ==
  IF variant = "seeder" THEN SeederUrl(u, CountFile, RepoRoot)
  ELSE OldSeederUrl(u, CountFile, RepoRoot)

Counts(variant, u) ==
  IF variant = "seeder"
  THEN SeederCounts(u, Trim(u), Resolve(RepoRoot), UrlAfter(variant, u))
  ELSE OldSeederCounts(u, Trim(u), UrlAfter(variant, u))

\* question.attachments after the map.
MapAttachments(variant, q) ==
  [attachments |-> [i \in 1..Len(q.attachments) |->
                      [url |-> UrlAfter(variant, q.attachments[i].url)]]]

\* The questions of a list after normalizeList, or after the loop of the variant.
ListAfter(variant, questions) ==
  [i \in 1..Len(questions) |-> MapAttachments(variant, questions[i])]

CountedIn(variant, q) ==
  Cardinality({i \in 1..Len(q.attachments) : Counts(variant, q.attachments[i].url)})

\* localChanges of a list, or changes of the variant's loop.
RECURSIVE ListChanges(_, _)
ListChanges(variant, questions) ==
  IF questions = <<>> THEN 0
  ELSE CountedIn(variant, Head(questions)) + ListChanges(variant, Tail(questions))

RECURSIVE SetsChanges(_, _)
SetsChanges(variant, sets) ==
  IF sets = <<>> THEN 0
  ELSE ListChanges(variant, Head(sets).questions) + SetsChanges(variant, Tail(sets))

\* seeder.ts, lines 225-234, on a multi-set payload
NormalizeSets ==
  /\ npc = "call"
  /\ countVariant = "seeder"
  /\ countPayload.multi
  /\ countOut' = [countPayload EXCEPT !.sets =
                    [i \in 1..Len(@) |-> [questions |-> ListAfter(countVariant, @[i].questions)]]]
  /\ changes' = SetsChanges(countVariant, countPayload.sets)
  /\ npc' = "returned"
  /\ UNCHANGED <<countVariant, countPayload, coreVars, batchVars, seedVars>>

\* Both variants on a single-quiz payload: quizz.questions is the list.
NormalizeQuestions ==
  /\ npc = "call"
  /\ ~countPayload.multi
  /\ countOut' = [countPayload EXCEPT !.questions = ListAfter(countVariant, @)]
  /\ changes' = ListChanges(countVariant, countPayload.questions)
  /\ npc' = "returned"
  /\ UNCHANGED <<countVariant, countPayload, coreVars, batchVars, seedVars>>

\* The earlier variant on a multi-set payload: quizz.questions is no array.
NormalizeNothing ==
  /\ npc = "call"
  /\ countVariant = "oldSeeder"
  /\ countPayload.multi
  /\ changes' = 0
  /\ npc' = "returned"
  /\ UNCHANGED <<countVariant, countPayload, countOut, coreVars, batchVars, seedVars>>

ExtraIdle == BatchIdle /\ SeedIdle /\ CountIdle

CoreIdle ==
  ParserInit /\ LangIdle /\ RootIdle /\ NormIdle /\ IdIdle /\ InferIdle /\ CombineIdle

Init == ParserInit /\ LangIdle /\ RootIdle /\ NormIdle /\ IdIdle /\ InferIdle /\ CombineIdle /\ ExtraIdle

Next == ReadTitle \/ ReadHeading \/ ReadIntro \/ ReadBody \/ Finish

Spec == Init /\ [][Next]_vars

InitLanguage == LangInit /\ ParserInit /\ RootIdle /\ NormIdle /\ IdIdle /\ InferIdle /\ CombineIdle /\ ExtraIdle

NextLanguage == Derive

SpecLanguage == InitLanguage /\ [][NextLanguage]_vars

InitRoots == RootInit /\ ParserInit /\ LangIdle /\ NormIdle /\ IdIdle /\ InferIdle /\ CombineIdle /\ ExtraIdle

NextRoots == RunA \/ RunB

SpecRoots == InitRoots /\ [][NextRoots]_vars

InitNormalize == NormInit /\ ParserInit /\ LangIdle /\ RootIdle /\ IdIdle /\ InferIdle /\ CombineIdle /\ ExtraIdle

NextNormalize == ConsolidatorPass \/ SeederPass \/ OldSeederPass

SpecNormalize == InitNormalize /\ [][NextNormalize]_vars

InitId == IdInit /\ ParserInit /\ LangIdle /\ RootIdle /\ NormIdle /\ InferIdle /\ CombineIdle /\ ExtraIdle

NextId == HashA \/ HashB

SpecId == InitId /\ [][NextId]_vars

InitInfer ==
  InferInit /\ ParserInit /\ LangIdle /\ RootIdle /\ NormIdle /\ IdIdle /\ CombineIdle
  /\ ExtraIdle

NextInfer == Infer

SpecInfer == InitInfer /\ [][NextInfer]_vars

InitCombine ==
  CombineInit /\ ParserInit /\ LangIdle /\ RootIdle /\ NormIdle /\ IdIdle /\ InferIdle
  /\ ExtraIdle

NextCombine == ReadFiles \/ BuildPayload

SpecCombine == InitCombine /\ [][NextCombine]_vars

InitBatch == BatchInit /\ CoreIdle /\ SeedIdle /\ CountIdle

NextBatch == WriteGroup \/ FailGroup \/ Summary

SpecBatch == InitBatch /\ [][NextBatch]_vars

InitSeed == SeedInit /\ CoreIdle /\ BatchIdle /\ CountIdle

NextSeed == ListFiles \/ Reject \/ SeedNext \/ SeedDone

SpecSeed == InitSeed /\ [][NextSeed]_vars

InitCount == CountInit /\ CoreIdle /\ BatchIdle /\ SeedIdle

NextCount == NormalizeSets \/ NormalizeQuestions \/ NormalizeNothing

SpecCount == InitCount /\ [][NextCount]_vars

(***************************************************************************)
(* Claims about the parser, checked under Spec.                            *)
(***************************************************************************)
Questions == parsed[1].quizz.questions

Warnings == parsed[1].meta.warnings

\* How many entries of the sequence ws equal w.
Count(ws, w) == Cardinality({k \in 1..Len(ws) : ws[k] = w})

\* C1: every question parseQuestionBlock produces has nature ChooseMany exactly
\* when its correctAnswer has more than one element, and ChooseOne otherwise,
\* also when correctAnswer is empty.
C1_NatureIffSeveralCorrect ==
  pc = "done" =>
    \A i \in 1..Len(Questions) :
      /\ Questions[i].nature \in {"ChooseOne", "ChooseMany"}
      /\ Questions[i].nature = "ChooseMany" <=> Len(Questions[i].correctAnswer) > 1

\* A parsed document with a question of two marked answers next to a question
\* of none.
C1_Witness ==
  /\ pc = "done"
  /\ \E i, k \in 1..Len(Questions) :
       /\ Len(Questions[i].correctAnswer) = 2 /\ Questions[i].nature = "ChooseMany"
       /\ Len(Questions[k].correctAnswer) = 0 /\ Questions[k].nature = "ChooseOne"

\* C6: a "## " line becomes the title only in Preamble, before the first "#### "
\* heading; once In-Questions, a line that is no "#### " heading is appended to
\* the body of the current block and is never consumed as the title.
C6_TitleOnlyInPreamble ==
  [][nread' = nread + 1 =>
       /\ title' # title => ~inQuestions
       /\ (inQuestions /\ ~IsQuestionLine(line')) =>
            /\ title' = title
            /\ currentQuestion'.body = Append(currentQuestion.body, line')]_vars

\* C9: the warnings list holds exactly one 'has no options' entry for each
\* question with no options, exactly one 'has no marked correct answers' entry
\* for each question with no marked answer, and nothing else; every question
\* block read is emitted as a question.
C9_WarningsExact ==
  pc = "done" =>
    /\ Len(Questions) = Len(Pushed(LoopState))
    /\ \A i \in 1..Len(Questions) :
         /\ Count(Warnings, NoOptionsWarning(i)) =
              (IF Questions[i].options = <<>> THEN 1 ELSE 0)
         /\ Count(Warnings, NoAnswersWarning(i)) =
              (IF Questions[i].correctAnswer = <<>> THEN 1 ELSE 0)
    /\ \A k \in 1..Len(Warnings) :
         \E i \in 1..Len(Questions) :
           Warnings[k] \in {NoOptionsWarning(i), NoAnswersWarning(i)}

\* A parsed document with a block that has no option line, so two warnings, next
\* to a block with options of which none is marked, so one.
C9_Witness ==
  /\ pc = "done"
  /\ \E i, j \in 1..Len(Questions) :
       /\ Questions[i].options = <<>> /\ Questions[i].correctAnswer = <<>>
       /\ Questions[j].options # <<>> /\ Questions[j].correctAnswer = <<>>
       /\ Len(Warnings) = 3

(***************************************************************************)
(* Claims about the language tag, checked under SpecLanguage.              *)
(***************************************************************************)
\* The code the claim names: the two letters, or two letters, a hyphen and two
\* letters, that stand between a hyphen or dot and the extension; 'en' when the
\* name ends in no such suffix.
SuffixLanguage(name) ==
  LET n == Len(name)
      at(k) == IF k >= 1 THEN name[k] ELSE ""
  IN IF /\ at(n - 5) \in {"-", "."} /\ IsLetter(at(n - 4)) /\ IsLetter(at(n - 3))
        /\ at(n - 2) = "-" /\ IsLetter(at(n - 1)) /\ IsLetter(at(n))
     THEN SubSeq(name, n - 4, n)
     ELSE IF at(n - 2) \in {"-", "."} /\ IsLetter(at(n - 1)) /\ IsLetter(at(n))
     THEN SubSeq(name, n - 1, n)
     ELSE English

WithoutExtension(base) == SubSeq(base, 1, Len(base) - Len(DotMd))

\* C5: meta.language of a source path is the two-letter or two-letter-region
\* code that immediately precedes the file extension after a hyphen or dot, and
\* 'en' for every filename without such a suffix, such as '<name>-quiz.md'.
C5_LanguageIsSuffixOrEnglish ==
  langOut # <<>> => langOut[1] = SuffixLanguage(WithoutExtension(Basename(langPath)))

\* The blocks the questions were parsed from.
Blocks == Pushed(LoopState)

\* Line i of a body is outside a fenced code span: the fence lines up to and
\* including it are even in number.
Outside(body, i) == Cardinality({k \in 1..i : IsFenceLine(body[k])}) % 2 = 0

OptionLines(body) == {i \in 1..Len(body) : OptionParts(body[i]).ok /\ Outside(body, i)}

MarkedLines(body) == {i \in OptionLines(body) : OptionParts(body[i]).mark \in {"x", "X"}}

\* The option texts of the lines at, in document order.
RECURSIVE TextsOf(_, _)
TextsOf(body, at) ==
  IF at = {} THEN <<>>
  ELSE <<OptionParts(body[Min(at)]).text>> \o TextsOf(body, at \ {Min(at)})

\* The image references of every line, in document order.
RECURSIVE RefsOf(_)
RefsOf(body) == IF body = <<>> THEN <<>> ELSE ImageRefs(Head(body), 1) \o RefsOf(Tail(body))

\* C15: the options of a question are the texts of the body lines that match the
\* option pattern outside a fenced code span, in document order; correctAnswer
\* is the subsequence of them from the lines marked x or X; an option-looking
\* line inside a fence is not captured; the attachments are the image references
\* of every body line, inside fences too.
C15_OptionsOutsideFences ==
  pc = "done" =>
    /\ Len(Questions) = Len(Blocks)
    /\ \A i \in 1..Len(Questions) :
         /\ Questions[i].options = TextsOf(Blocks[i].body, OptionLines(Blocks[i].body))
         /\ Questions[i].correctAnswer = TextsOf(Blocks[i].body, MarkedLines(Blocks[i].body))
         /\ [j \in 1..Len(Questions[i].attachments) |-> Questions[i].attachments[j].url]
              = RefsOf(Blocks[i].body)

\* A question with a marked option, then a fence and an option-looking line in it.
C15_Witness ==
  /\ pc = "done"
  /\ \E i \in 1..Len(Questions) :
       /\ Questions[i].options = <<<<"4">>>>
       /\ Questions[i].correctAnswer = <<<<"4">>>>
       /\ \E k \in 1..Len(Blocks[i].body) :
            OptionParts(Blocks[i].body[k]).ok /\ ~Outside(Blocks[i].body, k)

\* C17, amended: two attachments of one document have the same id exactly when
\* they are in the same question and hold the same raw reference; attachments of
\* different questions, or with different references, have different ids.
C17_AttachmentIdsKeyed ==
  pc = "done" =>
    \A i, k \in 1..Len(Questions) :
      \A j \in 1..Len(Questions[i].attachments), l \in 1..Len(Questions[k].attachments) :
        Questions[i].attachments[j].id = Questions[k].attachments[l].id
          <=> (i = k /\ Questions[i].attachments[j].url = Questions[k].attachments[l].url)

\* Two questions with the same image, the first with that image twice and
\* another one next to it.
C17_Witness ==
  /\ pc = "done"
  /\ Len(Questions) = 2
  /\ Len(Questions[1].attachments) = 3
  /\ Questions[1].attachments[1].id = Questions[1].attachments[2].id
  /\ Questions[1].attachments[1].id # Questions[1].attachments[3].id
  /\ Questions[2].attachments # <<>>
  /\ Questions[2].attachments[1].url = Questions[1].attachments[1].url
  /\ Questions[2].attachments[1].id # Questions[1].attachments[1].id

\* C17: the attachments parseQuizMarkdown produces for one document, in one
\* question or in several, have pairwise different ids.
C17_AttachmentIdsDistinct ==
  pc = "done" =>
    \A i, k \in 1..Len(Questions) :
      \A j \in 1..Len(Questions[i].attachments), l \in 1..Len(Questions[k].attachments) :
        <<i, j>> # <<k, l>> => Questions[i].attachments[j].id # Questions[k].attachments[l].id

(***************************************************************************)
(* Claims about the declared root, checked under SpecRoots.                *)
(***************************************************************************)
AttachmentIdsOf(questions) ==
  [i \in 1..Len(questions) |->
     [j \in 1..Len(questions[i].attachments) |-> questions[i].attachments[j].id]]

\* C3: for one file layout and one content, two runs of the parser pipeline under
\* two different declared roots give every corresponding attachment the same
\* identifier.
C3_AttachmentIdsIgnoreRoot ==
  (outA # <<>> /\ outB # <<>>) =>
    AttachmentIdsOf(outA[1].quizz.questions) = AttachmentIdsOf(outB[1].quizz.questions)

(***************************************************************************)
(* Claims about the normalizers, checked under SpecNormalize.              *)
(***************************************************************************)
\* C2: for every reference, document directory and root, each normalizer applied
\* to its own output returns that output unchanged.
C2_NormalizeIdempotent == passes = 2 => urlTwice = urlOnce

\* The root-marker prefix of a normalizer: the resolved declared root, or the root
\* the earlier seeder carries in its code.
RootPrefix == IF normalizer = "oldSeeder" THEN HardRoot ELSE Resolve(root)

\* The url the claim names for a trimmed reference: verbatim when it is an
\* http(s) URL, starts with a root marker (the prefix, or "~") or with "/"; else
\* the prefix, the directory under the root and the reference less one leading
\* "./", joined.
ClaimedUrl(trimmed, relDir, prefix) ==
  IF \/ IsHttpUrl(trimmed)
     \/ StartsWith(trimmed, prefix)
     \/ StartsWith(trimmed, <<"~">>)
     \/ StartsWith(trimmed, <<Sep>>)
  THEN trimmed
  ELSE PosixJoin(<<prefix>> \o RelParts(relDir) \o <<StripLeading(trimmed, <<".", Sep>>)>>)

\* C7: normalizeAttachments and the earlier seeder's normalizeAttachmentUrls
\* return the trimmed reference unchanged when it is an http(s) URL, starts with
\* the root-marker prefix or with "/", and the joined path in every other case.
C7_NormalizeRule ==
  (passes >= 1 /\ normalizer \in {"consolidator", "oldSeeder"}) =>
    urlOnce = ClaimedUrl(Trim(url), Relative(root, Dirname(docFile)), RootPrefix)

(***************************************************************************)
(* Claims about stableId, checked under SpecId.                            *)
(***************************************************************************)
\* C8: two lists of parts that differ in a part, in value or in number, are never
\* fed to the hash as the same bytes, so (the digest taken as injective) they get
\* different identifiers; equal lists get the same identifier.
C8_StableIdInjective ==
  (idA # <<>> /\ idB # <<>>) => (idA = idB <=> partsA = partsB)

(***************************************************************************)
(* Claims about the consolidator, checked under SpecCombine and SpecInfer. *)
(***************************************************************************)
Sets == payload[1].quizz.sets

\* The documents of the group that a set can have come from.
DocumentsOf(set) ==
  {i \in 1..Len(groupFiles) :
     /\ inferLanguage(groupFiles[i].data.meta.language, groupFiles[i].file) = set.language
     /\ Len(groupFiles[i].data.quizz.questions) = Len(set.questions)
     /\ groupFiles[i].data.quizz.title = set.title}

\* C4: the aggregate built from a group of documents has exactly one set per
\* document, the sets in non-decreasing order of language code, each set's id
\* the aggregate id, a hyphen and the set's language, and every question of every
\* set stamped with its set's id and with the aggregate id.
C4_OneSortedStampedSetPerDocument ==
  payload # <<>> =>
    /\ Len(Sets) = Len(groupFiles)
    /\ \A i \in 1..Len(Sets) : DocumentsOf(Sets[i]) # {}
    /\ \A i, k \in 1..Len(Sets) : i < k => ~Precedes(Sets[k].language, Sets[i].language)
    /\ \A i \in 1..Len(Sets) :
         /\ Sets[i].id = payload[1].quizz.id \o <<"-">> \o Sets[i].language
         /\ \A j \in 1..Len(Sets[i].questions) :
              /\ Sets[i].questions[j].setId = Sets[i].id
              /\ Sets[i].questions[j].quizzId = payload[1].quizz.id

\* A French file listed before an English one, both with a question, combined.
C4_Witness ==
  /\ payload # <<>>
  /\ Len(groupFiles) = 2
  /\ parsedFiles[1].file = groupFiles[2].file
  /\ Sets[1].language = English
  /\ Sets[2].language = <<"f", "r">>
  /\ Sets[1].questions # <<>>
  /\ Sets[2].questions # <<>>

\* The recognized code that ends the filename without its extension after a hyphen.
SuffixCode(name) ==
  IF \E i \in 1..Len(KNOWN_LANGS) : EndsWith(ToLowerCase(name), <<"-">> \o KNOWN_LANGS[i])
  THEN KNOWN_LANGS[CHOOSE i \in 1..Len(KNOWN_LANGS) :
                     EndsWith(ToLowerCase(name), <<"-">> \o KNOWN_LANGS[i])]
  ELSE <<>>

JsonName(file) == SubSeq(Basename(file), 1, Len(Basename(file)) - Len(DotJson))

DeclaredCode(meta) == IF meta.num THEN <<>> ELSE ToLowerCase(Trim(meta.s))

\* C10: inferLanguage returns the declared metadata language, trimmed and
\* lower-cased, whenever that is a recognized code, whatever the filename;
\* otherwise the recognized code that ends the filename without extension after
\* a hyphen; otherwise 'en'.
C10_MetadataThenSuffixThenEnglish ==
  inferOut # <<>> =>
    inferOut[1] = IF IsKnownLang(DeclaredCode(inferMeta)) THEN DeclaredCode(inferMeta)
                  ELSE IF SuffixCode(JsonName(inferFile)) # <<>>
                  THEN SuffixCode(JsonName(inferFile))
                  ELSE English

\* A declared " FR " on a file named "-DE": the metadata wins.
C10_Witness ==
  /\ inferOut = <<<<"f", "r">>>>
  /\ inferMeta = Str(<<" ", "F", "R", " ">>)
  /\ SuffixCode(JsonName(inferFile)) = <<"d", "e">>

\* The entries Promise.all gives when the group's files are listed in the order p.
Reordered(p) == ParsedFiles([i \in 1..Len(groupFiles) |-> groupFiles[p[i]]])

Orders ==
  {p \in [1..Len(groupFiles) -> 1..Len(groupFiles)] :
     \A i, k \in 1..Len(groupFiles) : p[i] = p[k] => i = k}

\* The base the rule names among sorted entries: the 'en' one, else the first.
ClaimedBase(sorted) ==
  IF \E i \in 1..Len(sorted) : sorted[i].language = English
  THEN sorted[CHOOSE i \in 1..Len(sorted) : sorted[i].language = English]
  ELSE sorted[1]

\* C11: the base of buildCombinedPayload is the document inferred 'en' if there is
\* one, else the first in sorted order; the aggregate's id and createdById are the
\* base's quizz.id and quizz.createdById and its slug comes from the base's title;
\* and the base is the same document in whatever order the files were listed.
C11_BaseGivesIdentity ==
  payload # <<>> =>
    /\ payload[1].quizz.id = ClaimedBase(parsedFiles).data.quizz.id
    /\ payload[1].quizz.createdById = ClaimedBase(parsedFiles).data.quizz.createdById
    /\ slugify(ClaimedBase(parsedFiles).data.quizz.title) # <<>> =>
         payload[1].quizz.slug = slugify(ClaimedBase(parsedFiles).data.quizz.title)
    /\ \A p \in Orders :
         pickBase(SortByLanguage(Reordered(p))).file = ClaimedBase(parsedFiles).file

\* C14: an aggregate holds one set per distinct language: the sets' language tags
\* are pairwise distinct, so are the sets' ids, and meta.languages repeats no code.
C14_OneSetPerLanguage ==
  payload # <<>> =>
    /\ \A i, k \in 1..Len(Sets) :
         i # k => Sets[i].language # Sets[k].language /\ Sets[i].id # Sets[k].id
    /\ \A i, k \in 1..Len(payload[1].meta.languages) :
         i # k => payload[1].meta.languages[i] # payload[1].meta.languages[k]

(***************************************************************************)
(* Claims about the consolidator's batch loop, checked under SpecBatch.    *)
(***************************************************************************)
ParsedGroups(n) == {i \in 1..n : AllParse(batchGroups[i])}

RECURSIVE QuestionsOfSets(_)
QuestionsOfSets(sets) ==
  IF sets = <<>> THEN <<>> ELSE Head(sets).questions \o QuestionsOfSets(Tail(sets))

AllQuestions(p) == IF p.multi THEN QuestionsOfSets(p.sets) ELSE p.questions

\* The attachments whose url the call changed.
Differing ==
  {<<i, j>> \in (1..Len(AllQuestions(countPayload))) \X (1..MaxAttachments) :
     /\ j <= Len(AllQuestions(countPayload)[i].attachments)
     /\ AllQuestions(countOut)[i].attachments[j].url
          # AllQuestions(countPayload)[i].attachments[j].url}

\* C16: the number normalizeAttachmentUrls returns is the number of attachments
\* whose url after the call differs from its url before, for single-quiz and
\* multi-set payloads and for both variants of the seeder.
C16_ChangeCountIsExact ==
  npc = "returned" => changes = Cardinality(Differing)

====
